---------------------------- MODULE Spec2Model ----------------------------
(***************************************************************************)
(* LiteMap (my-react-app/src/App.jsx): the session state of the App        *)
(* component, its event handlers and the asynchronous continuations of     *)
(* its search, category-filter, routing, share and geolocation pipelines.  *)
(*                                                                         *)
(* Numbers.  JavaScript doubles are modelled in fixed point:               *)
(*   - a latitude/longitude is an integer number of 1/100 degree;          *)
(*   - an angle in radians and a sine/cosine carry the factor Scale;       *)
(*   - a distance "in km" carries the factor Scale (1 = 0.1 m).            *)
(* null is the record [null |-> TRUE] for object-valued state, the string  *)
(* "null" for string-valued state and 0 for tutorialStep.                  *)
(***************************************************************************)
EXTENDS Integers, Sequences, FiniteSets, TLC

null == [null |-> TRUE]
nullStr == "null"

(***************************************************************************)
(* Fixed-point arithmetic standing for Math.sin, Math.cos, Math.sqrt,      *)
(* Math.atan2 and Math.round.                                              *)
(***************************************************************************)
Scale == 10 ^ 4
\* Math.PI, times Scale
PI == 31416
HalfPI == 15708

Abs(x) == IF x < 0 THEN -x ELSE x

\* x / d rounded toward zero, as the fixed-point image of a float division
Quot(x, d) == IF x < 0 THEN -((-x) \div d) ELSE x \div d

\* product of two Scale-d numbers
Mul(a, b) == Quot(a * b, Scale)

\* Math.round: the nearest integer, ties toward +infinity; n / d with d > 0
MathRound(n, d) == (2 * n + d) \div (2 * d)

RECURSIVE IsqrtFrom(_, _, _)
IsqrtFrom(n, lo, hi) ==
    IF lo >= hi THEN lo
    ELSE LET mid == (lo + hi + 1) \div 2
         IN  IF mid * mid <= n THEN IsqrtFrom(n, mid, hi)
             ELSE IsqrtFrom(n, lo, mid - 1)

\* floor of the square root of n, 0 <= n < 2^31
Isqrt(n) == IsqrtFrom(n, 0, 46340)

\* Math.sqrt of a Scale-d number in [0, 1]
MathSqrt(a) == Isqrt(a * Scale)

\* Math.sin for 0 <= x <= PI/2 (Taylor polynomial to x^9)
SinPos(x) ==
    LET x2 == Mul(x, x)
        t3 == Mul(x, x2) \div 6
        t5 == Mul(t3, x2) \div 20
        t7 == Mul(t5, x2) \div 42
        t9 == Mul(t7, x2) \div 72
    IN  x - t3 + t5 - t7 + t9

\* Math.sin for -PI/2 <= x <= PI/2
MathSin(x) == IF x < 0 THEN -SinPos(-x) ELSE SinPos(x)

\* Math.cos for -PI <= x <= PI
MathCos(x) == MathSin(HalfPI - Abs(x))

\* atan of a Scale-d t in [0, 1]: one half-angle reduction, then the series
AtanUnit(t) ==
    LET u  == (t * Scale) \div (Scale + Isqrt(Scale * Scale + t * t))
        u2 == Mul(u, u)
        t3 == Mul(u, u2)
        t5 == Mul(t3, u2)
        t7 == Mul(t5, u2)
        t9 == Mul(t7, u2)
    IN  2 * (u - t3 \div 3 + t5 \div 5 - t7 \div 7 + t9 \div 9)

\* Math.atan2(y, x) for y >= 0 and x >= 0
MathAtan2(y, x) ==
    IF y = 0 THEN 0
    ELSE IF y <= x THEN AtanUnit((y * Scale) \div x)
    ELSE HalfPI - AtanUnit((x * Scale) \div y)

\* deg * Math.PI / 180, deg in 1/100 degree
Rad(deg) == Quot(deg * PI, 18000)

\* Earth's radius in km
R == 6371

(***************************************************************************)
(* getDistanceKm: the haversine distance, in km times Scale.               *)
(***************************************************************************)
\* a haversine that would take both cosines at the first point's latitude
getDistanceKmOneLatitude(lat1, lon1, lat2, lon2) ==
    LET dLat == Rad(lat2 - lat1)
        dLon == Rad(lon2 - lon1)
        sLat == MathSin(Quot(dLat, 2))
        sLon == MathSin(Quot(dLon, 2))
        cc   == Mul(MathCos(Rad(lat1)), MathCos(Rad(lat1)))
        a2   == sLat * sLat + Quot(cc * sLon, Scale) * sLon
        c    == 2 * MathAtan2(Isqrt(a2), Isqrt(Scale * Scale - a2))
    IN  R * c

getDistanceKm(lat1, lon1, lat2, lon2) ==
    LET dLat == Rad(lat2 - lat1)
        dLon == Rad(lon2 - lon1)
        sLat == MathSin(Quot(dLat, 2))
        sLon == MathSin(Quot(dLon, 2))
        cc   == Mul(MathCos(Rad(lat1)), MathCos(Rad(lat2)))
        \* a carries the factor Scale^2 until it is rooted
        a2   == sLat * sLat + Quot(cc * sLon, Scale) * sLon
        c    == 2 * MathAtan2(Isqrt(a2), Isqrt(Scale * Scale - a2))
    IN  R * c


(***************************************************************************)
(* formatDistance: the text shown for a distance, as <<number, unit>>.     *)
(* Its image of "9.5 km" is <<95, "km1">> (tenths), of "12 km" <<12, "km">>*)
(***************************************************************************)
\* a formatting whose thresholds would belong to the smaller unit
formatDistanceInclusive(km) ==
    IF km <= Scale THEN <<MathRound(km * 1000, Scale), "m">>
    ELSE IF km <= 10 * Scale THEN <<MathRound(km * 10, Scale), "km1">>
    ELSE <<MathRound(km, Scale), "km">>

formatDistance(km) ==
    IF km < Scale THEN <<MathRound(km * 1000, Scale), "m">>
    ELSE IF km < 10 * Scale THEN <<MathRound(km * 10, Scale), "km1">>
    ELSE <<MathRound(km, Scale), "km">>

(***************************************************************************)
(* Coordinates.  A position is the array [lat, lng] of the code.           *)
(***************************************************************************)
Pos(lat, lon) == [lat |-> lat, lon |-> lon]

\* const fallback = [14.4324, 120.9619]
FallbackLocation == Pos(1443, 12096)

\* where the user may tap the map
TapPositions == {Pos(1450, 12100), Pos(1380, 12160)}

\* what the device's geolocation may report
DevicePositions == {Pos(1460, 12080), Pos(1390, 12120)}

(***************************************************************************)
(* The geocoding service.  A response item is                              *)
(*   {place_id, lat, lon, display_name}                                    *)
(* with lat and lon decimal strings (sequences of characters) and          *)
(* display_name a comma-separated hierarchy (the sequence of its parts).   *)
(***************************************************************************)
Digits == <<"0", "1", "2", "3", "4", "5", "6", "7", "8", "9">>

DigitChar(d) == Digits[d + 1]

RECURSIVE IntChars(_)
IntChars(n) == IF n < 10 THEN <<DigitChar(n)>>
               ELSE Append(IntChars(n \div 10), DigitChar(n % 10))

\* the service's decimal text of a coordinate given in 1/100 degree
CoordText(v) ==
    IntChars(v \div 100) \o <<".", DigitChar((v % 100) \div 10), DigitChar(v % 10)>>

DigitValue(ch) == CHOOSE d \in 0..9 : Digits[d + 1] = ch

IsDigit(ch) == \E d \in 0..9 : Digits[d + 1] = ch

\* parseFloat, in 1/100: the digits before the point, then two decimals
RECURSIVE ParseInt(_, _)
ParseInt(s, acc) ==
    IF s = <<>> \/ ~IsDigit(Head(s)) THEN <<acc, s>>
    ELSE ParseInt(Tail(s), 10 * acc + DigitValue(Head(s)))

parseFloat(s) ==
    LET ip   == ParseInt(s, 0)
        rest == ip[2]
        frac == IF rest # <<>> /\ Head(rest) = "." THEN Tail(rest) ELSE <<>>
        d1   == IF Len(frac) >= 1 /\ IsDigit(frac[1]) THEN DigitValue(frac[1]) ELSE 0
        d2   == IF Len(frac) >= 2 /\ IsDigit(frac[1]) /\ IsDigit(frac[2])
                THEN DigitValue(frac[2]) ELSE 0
    IN  ip[1] * 100 + d1 * 10 + d2

\* the longest response of the geocoding service (a bound of the model)
MaxListing == 9

\* the number of places the model's geocoder knows
NPlaces == MaxListing + 1

PlaceNames == <<"Alpha", "Bravo", "Cedar", "Delta", "Ember", "Fjord",
                "Grove", "Haven", "Inlet", "Jetty", "Knoll", "Ledge">>

\* places i and i + 7 share a coordinate (two places in one building)
PlaceLat(i) == 1400 + (((i % 7) * 37) % 100)
PlaceLon(i) == 12050 + (((i % 7) * 53) % 100)

Place(i) ==
    [place_id |-> i, lat |-> CoordText(PlaceLat(i)), lon |-> CoordText(PlaceLon(i)),
     display_name |-> <<PlaceNames[i], "Carmona", "Cavite">>]

\* a response listing n places, starting at place s, in the service's order
Listing(s, n) == [k \in 1..n |-> Place(((s + k) % NPlaces) + 1)]

\* the same places as the service may list them for another viewbox: the
\* same place_id and coordinates with a shorter address
RECURSIVE ShortListing(_, _)
ShortListing(s, n) ==
    IF n = 0 THEN <<>>
    ELSE Append(ShortListing(s, n - 1),
                [Place(((s + n) % NPlaces) + 1) EXCEPT
                    !.display_name = <<PlaceNames[((s + n) % NPlaces) + 1], "Cavite">>])

\* display_name.split(',')[0]
FirstPart(display_name) == display_name[1]

\* the category chips (a subset of the six of the code)
Categories == {"church", "restaurant"}

\* tutorialSteps.length
TutorialLength == 6
nullStep == 0

(***************************************************************************)
(* The bounds of the model.                                                *)
(***************************************************************************)
\* asynchronous requests (fetch, geolocation, share) pending at one time
MaxTasks == 2

(***************************************************************************)
(* Session state: the useState cells of App, and the requests in flight.   *)
(***************************************************************************)
VARIABLES
    biasLocation,   \* null or a position
    biasType,       \* nullStr, "user" or "dropped"
    flyTarget,      \* null or {position, zoom}; its 1300 ms timer is pending while set
    isAnimating,
    filterMarkers,  \* sequence of {id, position, name}
    searchMarker,   \* null or {position, name}
    searchQuery,
    searchResults,  \* sequence of response items, each with its distance
    isSearching,
    activeFilter,   \* nullStr or a category id
    showSidebar,
    selectedPlace,  \* null or {name, address, lat, lon, distance}
    toast,          \* null or the notice shown; its 3 s timer is pending while set
    routeInfo,      \* null or a RouteResult
    tutorialStep,   \* nullStep or 1..TutorialLength
    tasks,          \* bag of the pending asynchronous requests, each with the
                    \* locals of the handler invocation that awaits it
    profile,        \* the usage profile explored (who uses the app, and what
                    \* the services answer); it never changes
    calc            \* one evaluation of the distance helpers: the arguments
                    \* given and, once called, what they returned

appVars == <<biasLocation, biasType, flyTarget, isAnimating, filterMarkers,
             searchMarker, searchQuery, searchResults, isSearching, activeFilter,
             showSidebar, selectedPlace, toast, routeInfo, tutorialStep, tasks,
             profile>>

vars == <<appVars, calc>>

biasVars   == <<biasLocation, biasType>>
flyVars    == <<flyTarget, isAnimating>>
resultVars == <<searchResults, filterMarkers>>

NoTasks == [x \in {} |-> 0]

Profiles == {"pin", "geo", "search", "filter", "route", "share", "tutorial", "lock"}

\* an evaluation of the helpers before they are called: a and b are the two
\* points, km the distance to show; ab and ba become getDistanceKm(a, b) and
\* getDistanceKm(b, a), label becomes formatDistance(km)
Calc(a, b, km) == [a |-> a, b |-> b, km |-> km, ab |-> -1, ba |-> -1, label |-> <<>>]

NoCalc == Calc(FallbackLocation, FallbackLocation, 0)

\* the state cells as useState constructs them
Mounted ==
    /\ biasLocation = null
    /\ biasType = nullStr
    /\ flyTarget = null
    /\ isAnimating = FALSE
    /\ filterMarkers = <<>>
    /\ searchMarker = null
    /\ searchQuery = ""
    /\ searchResults = <<>>
    /\ isSearching = FALSE
    /\ activeFilter = nullStr
    /\ showSidebar = FALSE
    /\ selectedPlace = null
    /\ toast = null
    /\ routeInfo = null
    /\ tutorialStep = nullStep
    /\ tasks = NoTasks

Init ==
    /\ Mounted
    /\ profile \in Profiles
    /\ calc = NoCalc

(***************************************************************************)
(* Pending requests.  A task is the continuation of one handler invocation *)
(* with the values its closure holds: kind and pc say which await it is at.*)
(***************************************************************************)
Task(kind, pc, bias, cat, data, dest) ==
    [kind |-> kind, pc |-> pc, bias |-> bias, cat |-> cat, data |-> data, dest |-> dest]

Pending == DOMAIN tasks

RECURSIVE BagSize(_)
BagSize(S) == IF S = {} THEN 0
              ELSE LET t == CHOOSE x \in S : TRUE IN tasks[t] + BagSize(S \ {t})

NTasks == BagSize(Pending)

Added(t) ==
    IF t \in Pending THEN [tasks EXCEPT ![t] = @ + 1]
    ELSE [x \in Pending \cup {t} |-> IF x = t THEN 1 ELSE tasks[x]]

Removed(t) ==
    IF tasks[t] > 1 THEN [tasks EXCEPT ![t] = @ - 1]
    ELSE [x \in Pending \ {t} |-> tasks[x]]

\* the request of task t is answered and the handler goes on to await u
Moved(t, u) ==
    LET rest == Removed(t)
    IN  IF u \in DOMAIN rest THEN [rest EXCEPT ![u] = @ + 1]
        ELSE [x \in DOMAIN rest \cup {u} |-> IF x = u THEN 1 ELSE rest[x]]

CanStart == NTasks < MaxTasks

(***************************************************************************)
(* The pure steps of the pipelines.                                        *)
(***************************************************************************)
\* data.map(item => ({...item, distance: getDistanceKm(lat, lon, ...)}))
Annotate(data, bias) ==
    [k \in 1..Len(data) |->
        [place_id |-> data[k].place_id, lat |-> data[k].lat, lon |-> data[k].lon,
         display_name |-> data[k].display_name,
         distance |-> getDistanceKm(bias.lat, bias.lon,
                                    parseFloat(data[k].lat), parseFloat(data[k].lon))]]

\* x goes after every element that does not compare greater (a stable sort)
RECURSIVE InsertByDistance(_, _)
InsertByDistance(sorted, x) ==
    IF sorted = <<>> THEN <<x>>
    ELSE IF Head(sorted).distance - x.distance > 0 THEN <<x>> \o sorted
    ELSE <<Head(sorted)>> \o InsertByDistance(Tail(sorted), x)

\* the response order kept as it is
SortByDistanceUnsorted(data) == data

\* data.sort((a, b) => a.distance - b.distance)
RECURSIVE SortByDistance(_)
SortByDistance(data) ==
    IF data = <<>> THEN <<>>
    ELSE InsertByDistance(SortByDistance(SubSeq(data, 1, Len(data) - 1)), data[Len(data)])

\* data.slice(0, n)
Slice(data, n) == SubSeq(data, 1, IF Len(data) < n THEN Len(data) ELSE n)

MaxSearchResults == 6
MaxFilterResults == 8
MinFilterResults == 5

\* a merge that would take over an entry of the wider tier for a place the
\* tighter tier has listed
RECURSIVE MergeTiersKeepLast(_, _, _)
MergeTiersKeepLast(data, widerData, existingIds) ==
    IF widerData = <<>> THEN data
    ELSE IF Head(widerData).place_id \in existingIds
         THEN MergeTiersKeepLast(
                 [k \in 1..Len(data) |->
                     IF data[k].place_id = Head(widerData).place_id
                     THEN Head(widerData) ELSE data[k]],
                 Tail(widerData), existingIds)
         ELSE MergeTiersKeepLast(Append(data, Head(widerData)), Tail(widerData),
                                 existingIds)

\* the merge of the two radius tiers of the category filter
RECURSIVE MergeTiers(_, _, _)
MergeTiers(data, widerData, existingIds) ==
    IF widerData = <<>> THEN data
    ELSE IF Head(widerData).place_id \in existingIds
         THEN MergeTiers(data, Tail(widerData), existingIds)
         ELSE MergeTiers(Append(data, Head(widerData)), Tail(widerData), existingIds)

PlaceIds(data) == {data[k].place_id : k \in 1..Len(data)}

\* the markers of the category filter; ids are "filter-<index>", from 0
MarkersOf(data) ==
    [k \in 1..Len(data) |->
        [id |-> k - 1,
         position |-> Pos(parseFloat(data[k].lat), parseFloat(data[k].lon)),
         name |-> FirstPart(data[k].display_name)]]

SearchRanking(data, bias) == Slice(SortByDistance(Annotate(data, bias)), MaxSearchResults)

FilterRanking(data, bias) == Slice(SortByDistance(Annotate(data, bias)), MaxFilterResults)

(***************************************************************************)
(* Notices and animation.                                                  *)
(***************************************************************************)
Notice(msg) == [msg |-> msg]

\* setTimeout(() => setToast(null), duration): a timer of an earlier notice may
\* clear a later one, so a shown notice may vanish at any time
ToastExpire ==
    /\ toast # null
    /\ toast' = null
    /\ UNCHANGED <<biasVars, flyVars, resultVars, searchMarker, searchQuery, isSearching,
                   activeFilter, showSidebar, selectedPlace, routeInfo, tutorialStep, tasks>>

\* flyTo sets isAnimating, hides the sidebar and starts the fly (FlyToHandler
\* restarts its 1300 ms timer whenever flyTarget is replaced)
FlyTarget(position, zoom) == [position |-> position, zoom |-> zoom]

\* a completion that would end the fly without releasing the lock
handleFlyCompleteKeepsLock ==
    /\ flyTarget # null
    /\ flyTarget' = null
    /\ UNCHANGED <<biasVars, isAnimating, resultVars, searchMarker, searchQuery,
                   isSearching, activeFilter, showSidebar, selectedPlace, toast,
                   routeInfo, tutorialStep, tasks>>

\* handleFlyComplete, called by FlyToHandler's timer
handleFlyComplete ==
    /\ flyTarget # null
    /\ isAnimating' = FALSE
    /\ flyTarget' = null
    /\ UNCHANGED <<biasVars, resultVars, searchMarker, searchQuery, isSearching,
                   activeFilter, showSidebar, selectedPlace, toast, routeInfo,
                   tutorialStep, tasks>>

(***************************************************************************)
(* Locate me.                                                              *)
(***************************************************************************)
LocateTask == Task("locate", "locate", null, nullStr, <<>>, null)

\* a locate button that would work during an animation
handleLocateMeUngated ==
    /\ CanStart
    /\ isAnimating' = TRUE
    /\ tasks' = Added(LocateTask)
    /\ UNCHANGED <<biasVars, flyTarget, resultVars, searchMarker, searchQuery,
                   isSearching, activeFilter, showSidebar, selectedPlace, toast,
                   routeInfo, tutorialStep>>

\* the locate button; GeolocateHandler's effect calls map.locate
handleLocateMe ==
    /\ ~isAnimating
    /\ CanStart
    /\ isAnimating' = TRUE
    /\ tasks' = Added(LocateTask)
    /\ UNCHANGED <<biasVars, flyTarget, resultVars, searchMarker, searchQuery,
                   isSearching, activeFilter, showSidebar, selectedPlace, toast,
                   routeInfo, tutorialStep>>

\* a locationfound that would not move a dropped pin
handleLocationFoundKeepsPin(position) ==
    /\ LocateTask \in Pending
    /\ tasks' = Removed(LocateTask)
    /\ biasLocation' = IF biasType = "dropped" THEN biasLocation ELSE position
    /\ biasType' = IF biasType = "dropped" THEN "dropped" ELSE "user"
    /\ isAnimating' = TRUE
    /\ showSidebar' = FALSE
    /\ flyTarget' = FlyTarget(position, 16)
    /\ UNCHANGED <<resultVars, searchMarker, searchQuery, isSearching, activeFilter,
                   selectedPlace, toast, routeInfo, tutorialStep>>

\* locationfound: handleLocationFound(position)
handleLocationFound(position) ==
    /\ LocateTask \in Pending
    /\ tasks' = Removed(LocateTask)
    /\ biasLocation' = position
    /\ biasType' = "user"
    /\ isAnimating' = TRUE
    /\ showSidebar' = FALSE
    /\ flyTarget' = FlyTarget(position, 16)
    /\ UNCHANGED <<resultVars, searchMarker, searchQuery, isSearching, activeFilter,
                   selectedPlace, toast, routeInfo, tutorialStep>>

\* a locationerror that would take the fallback location when there is no
\* bias point
handleLocationErrorFallsBack ==
    /\ LocateTask \in Pending
    /\ tasks' = Removed(LocateTask)
    /\ toast' = Notice("Could not find location")
    /\ isAnimating' = FALSE
    /\ biasLocation' = IF biasLocation = null THEN FallbackLocation ELSE biasLocation
    /\ biasType' = IF biasLocation = null THEN "user" ELSE biasType
    /\ UNCHANGED <<flyTarget, resultVars, searchMarker, searchQuery,
                   isSearching, activeFilter, showSidebar, selectedPlace, routeInfo,
                   tutorialStep>>

\* locationerror: the onError given to GeolocateHandler
handleLocationError ==
    /\ LocateTask \in Pending
    /\ tasks' = Removed(LocateTask)
    /\ toast' = Notice("Could not find location")
    /\ isAnimating' = FALSE
    /\ UNCHANGED <<biasVars, flyTarget, resultVars, searchMarker, searchQuery,
                   isSearching, activeFilter, showSidebar, selectedPlace, routeInfo,
                   tutorialStep>>

(***************************************************************************)
(* Dropping a pin.                                                         *)
(***************************************************************************)
ReverseTask == Task("mapclick", "reverse", null, nullStr, <<>>, null)

\* a tap that would keep the provenance of a device-located bias point
handleMapClickKeepsUser(position) ==
    /\ ~isAnimating
    /\ CanStart
    /\ biasLocation' = position
    /\ biasType' = IF biasType = "user" THEN "user" ELSE "dropped"
    /\ selectedPlace' = null
    /\ tasks' = Added(ReverseTask)
    /\ UNCHANGED <<flyVars, resultVars, searchMarker, searchQuery, isSearching,
                   activeFilter, showSidebar, toast, routeInfo, tutorialStep>>

\* a tap on the map tiles (MapClickHandler is disabled while animating)
handleMapClick(position) ==
    /\ ~isAnimating
    /\ CanStart
    /\ biasLocation' = position
    /\ biasType' = "dropped"
    /\ selectedPlace' = null
    /\ tasks' = Added(ReverseTask)
    /\ UNCHANGED <<flyVars, resultVars, searchMarker, searchQuery, isSearching,
                   activeFilter, showSidebar, toast, routeInfo, tutorialStep>>

\* the reverse-geocoding answer (named = TRUE) or its failure
handleMapClickNamed(named) ==
    /\ ReverseTask \in Pending
    /\ tasks' = Removed(ReverseTask)
    /\ toast' = IF named THEN Notice("Pin name") ELSE Notice("Pin dropped")
    /\ UNCHANGED <<biasVars, flyVars, resultVars, searchMarker, searchQuery,
                   isSearching, activeFilter, showSidebar, selectedPlace, routeInfo,
                   tutorialStep>>

(***************************************************************************)
(* ensureBiasLocation, as awaited by handleSearch and handleCategoryFilter.*)
(***************************************************************************)
IsPipeline(t) == t.kind \in {"search", "filter"}

\* a first await that would take the fallback location at once, without
\* asking the device, when there is no bias point
FirstAwaitSkipsGeolocation(kind, cat) ==
    IF biasLocation # null THEN Task(kind, "tier1", biasLocation, cat, <<>>, null)
    ELSE Task(kind, "tier1", FallbackLocation, cat, <<>>, null)

\* the first await of a pipeline: with a bias point the promise is already
\* resolved and the first fetch follows at once, otherwise geolocation is asked
FirstAwait(kind, cat) ==
    IF biasLocation # null THEN Task(kind, "tier1", biasLocation, cat, <<>>, null)
    ELSE Task(kind, "geo", null, cat, <<>>, null)

\* a success callback that would leave a dropped pin alone
ensureBiasLocatedKeepsPin(t, loc) ==
    /\ t \in Pending /\ IsPipeline(t) /\ t.pc = "geo"
    /\ biasLocation' = IF biasType = "dropped" THEN biasLocation ELSE loc
    /\ biasType' = IF biasType = "dropped" THEN "dropped" ELSE "user"
    /\ isAnimating' = TRUE
    /\ showSidebar' = FALSE
    /\ flyTarget' = FlyTarget(loc, 15)
    /\ tasks' = Moved(t, [t EXCEPT !.pc = "settle", !.bias = loc])
    /\ UNCHANGED <<resultVars, searchMarker, searchQuery, isSearching, activeFilter,
                   selectedPlace, toast, routeInfo, tutorialStep>>

\* getCurrentPosition's success callback
ensureBiasLocated(t, loc) ==
    /\ t \in Pending /\ IsPipeline(t) /\ t.pc = "geo"
    /\ biasLocation' = loc
    /\ biasType' = "user"
    /\ isAnimating' = TRUE
    /\ showSidebar' = FALSE
    /\ flyTarget' = FlyTarget(loc, 15)
    /\ tasks' = Moved(t, [t EXCEPT !.pc = "settle", !.bias = loc])
    /\ UNCHANGED <<resultVars, searchMarker, searchQuery, isSearching, activeFilter,
                   selectedPlace, toast, routeInfo, tutorialStep>>

\* setTimeout(() => resolve(loc), 1400): the pipeline issues its first fetch
ensureBiasResolved(t) ==
    /\ t \in Pending /\ IsPipeline(t) /\ t.pc = "settle"
    /\ tasks' = Moved(t, [t EXCEPT !.pc = "tier1"])
    /\ UNCHANGED <<biasVars, flyVars, resultVars, searchMarker, searchQuery,
                   isSearching, activeFilter, showSidebar, selectedPlace, toast,
                   routeInfo, tutorialStep>>

\* an error callback that would set the fallback coordinate without its tag
ensureBiasFailedUntagged(t) ==
    /\ t \in Pending /\ IsPipeline(t) /\ t.pc = "geo"
    /\ biasLocation' = FallbackLocation
    /\ tasks' = Moved(t, [t EXCEPT !.pc = "tier1", !.bias = FallbackLocation])
    /\ UNCHANGED <<biasType, flyVars, resultVars, searchMarker, searchQuery, isSearching,
                   activeFilter, showSidebar, selectedPlace, toast, routeInfo,
                   tutorialStep>>

\* getCurrentPosition's error callback: the fallback, resolved at once
ensureBiasFailed(t) ==
    /\ t \in Pending /\ IsPipeline(t) /\ t.pc = "geo"
    /\ biasLocation' = FallbackLocation
    /\ biasType' = "user"
    /\ tasks' = Moved(t, [t EXCEPT !.pc = "tier1", !.bias = FallbackLocation])
    /\ UNCHANGED <<flyVars, resultVars, searchMarker, searchQuery, isSearching,
                   activeFilter, showSidebar, selectedPlace, toast, routeInfo,
                   tutorialStep>>

(***************************************************************************)
(* Free-text search.                                                       *)
(***************************************************************************)
\* the search form; its submit button is disabled while isSearching or
\* isAnimating, its input while isAnimating
handleSearch ==
    /\ searchQuery # ""
    /\ ~isAnimating
    /\ ~isSearching
    /\ CanStart
    /\ activeFilter' = nullStr
    /\ isSearching' = TRUE
    /\ filterMarkers' = <<>>
    /\ tasks' = Added(FirstAwait("search", nullStr))
    /\ UNCHANGED <<biasVars, flyVars, searchMarker, searchQuery, searchResults,
                   showSidebar, selectedPlace, toast, routeInfo, tutorialStep>>

\* typing into the search input
setSearchQuery(q) ==
    /\ ~isAnimating
    /\ q # searchQuery
    /\ searchQuery' = q
    /\ UNCHANGED <<biasVars, flyVars, resultVars, searchMarker, isSearching,
                   activeFilter, showSidebar, selectedPlace, toast, routeInfo,
                   tutorialStep, tasks>>

\* a widening that would go back to the tightest radius after the second
NextSearchTierBack(pc) == IF pc = "tier1" THEN "tier2" ELSE "tier1"

\* a widening that would leave out the second radius
NextSearchTierCountry(pc) == "tier3"

\* the tier awaited after an empty answer at pc
NextSearchTier(pc) == IF pc = "tier1" THEN "tier2" ELSE "tier3"

\* a search that would go through all three radii whatever they answer
handleSearchResponseAllTiers(t, data) ==
    /\ t \in Pending /\ t.kind = "search" /\ t.pc \in {"tier1", "tier2", "tier3"}
    /\ IF t.pc # "tier3"
       THEN /\ tasks' = Moved(t, [t EXCEPT !.pc = NextSearchTier(t.pc)])
            /\ UNCHANGED <<searchResults, showSidebar, isSearching>>
       ELSE /\ tasks' = Removed(t)
            /\ searchResults' = SearchRanking(data, t.bias)
            /\ showSidebar' = TRUE
            /\ isSearching' = FALSE
    /\ UNCHANGED <<biasVars, flyVars, filterMarkers, searchMarker, searchQuery,
                   activeFilter, selectedPlace, toast, routeInfo, tutorialStep>>

\* a geocoding answer arrives for search task t
handleSearchResponse(t, data) ==
    /\ t \in Pending /\ t.kind = "search" /\ t.pc \in {"tier1", "tier2", "tier3"}
    /\ IF Len(data) = 0 /\ t.pc # "tier3"
       THEN /\ tasks' = Moved(t, [t EXCEPT !.pc = NextSearchTier(t.pc)])
            /\ UNCHANGED <<searchResults, showSidebar, isSearching>>
       ELSE /\ tasks' = Removed(t)
            /\ searchResults' = SearchRanking(data, t.bias)
            /\ showSidebar' = TRUE
            /\ isSearching' = FALSE
    /\ UNCHANGED <<biasVars, flyVars, filterMarkers, searchMarker, searchQuery,
                   activeFilter, selectedPlace, toast, routeInfo, tutorialStep>>

\* a fetch of a pipeline rejects (or its body is not JSON): the catch block
handlePipelineFailed(t) ==
    /\ t \in Pending /\ IsPipeline(t) /\ t.pc \in {"tier1", "tier2", "tier3"}
    /\ tasks' = Removed(t)
    /\ isSearching' = FALSE
    /\ UNCHANGED <<biasVars, flyVars, resultVars, searchMarker, searchQuery,
                   activeFilter, showSidebar, selectedPlace, toast, routeInfo,
                   tutorialStep>>

(***************************************************************************)
(* Category filter.                                                        *)
(***************************************************************************)
\* a chip that would query again when it is already active
handleCategoryFilterRequeries(category) ==
    /\ ~isAnimating
    /\ CanStart
    /\ activeFilter' = category
    /\ searchQuery' = ""
    /\ isSearching' = TRUE
    /\ searchMarker' = null
    /\ tasks' = Added(FirstAwait("filter", category))
    /\ UNCHANGED <<searchResults, filterMarkers>>
    /\ UNCHANGED <<biasVars, flyVars, showSidebar, selectedPlace, toast, routeInfo,
                   tutorialStep>>

\* a category chip (disabled while animating)
handleCategoryFilter(category) ==
    /\ ~isAnimating
    /\ IF activeFilter = category
       THEN /\ activeFilter' = nullStr
            /\ searchResults' = <<>>
            /\ filterMarkers' = <<>>
            /\ UNCHANGED <<searchQuery, isSearching, searchMarker, tasks>>
       ELSE /\ CanStart
            /\ activeFilter' = category
            /\ searchQuery' = ""
            /\ isSearching' = TRUE
            /\ searchMarker' = null
            /\ tasks' = Added(FirstAwait("filter", category))
            /\ UNCHANGED <<searchResults, filterMarkers>>
    /\ UNCHANGED <<biasVars, flyVars, showSidebar, selectedPlace, toast, routeInfo,
                   tutorialStep>>

\* a filter that would ask the wider radius whatever the first answer holds
handleCategoryResponseAlwaysWidens(t, data) ==
    /\ t \in Pending /\ t.kind = "filter" /\ t.pc \in {"tier1", "tier2"}
    /\ IF t.pc = "tier1"
       THEN /\ tasks' = Moved(t, [t EXCEPT !.pc = "tier2", !.data = data])
            /\ UNCHANGED <<searchResults, filterMarkers, showSidebar, isSearching>>
       ELSE LET merged == MergeTiers(t.data, data, PlaceIds(t.data))
                ranked == FilterRanking(merged, t.bias)
            IN  /\ tasks' = Removed(t)
                /\ searchResults' = ranked
                /\ filterMarkers' = MarkersOf(ranked)
                /\ showSidebar' = TRUE
                /\ isSearching' = FALSE
    /\ UNCHANGED <<biasVars, flyVars, searchMarker, searchQuery, activeFilter,
                   selectedPlace, toast, routeInfo, tutorialStep>>

\* a geocoding answer arrives for filter task t
handleCategoryResponse(t, data) ==
    /\ t \in Pending /\ t.kind = "filter" /\ t.pc \in {"tier1", "tier2"}
    /\ IF t.pc = "tier1" /\ Len(data) < MinFilterResults
       THEN /\ tasks' = Moved(t, [t EXCEPT !.pc = "tier2", !.data = data])
            /\ UNCHANGED <<searchResults, filterMarkers, showSidebar, isSearching>>
       ELSE LET merged == IF t.pc = "tier1" THEN data
                          ELSE MergeTiers(t.data, data, PlaceIds(t.data))
                ranked == FilterRanking(merged, t.bias)
            IN  /\ tasks' = Removed(t)
                /\ searchResults' = ranked
                /\ filterMarkers' = MarkersOf(ranked)
                /\ showSidebar' = TRUE
                /\ isSearching' = FALSE
    /\ UNCHANGED <<biasVars, flyVars, searchMarker, searchQuery, activeFilter,
                   selectedPlace, toast, routeInfo, tutorialStep>>

(***************************************************************************)
(* Selecting a result and acting on it.                                    *)
(***************************************************************************)
\* a row that would take the shown route away when another place is selected
handleResultClickClearsRoute(result) ==
    /\ ~isAnimating
    /\ \E k \in 1..Len(searchResults) : searchResults[k] = result
    /\ selectedPlace' = [name |-> FirstPart(result.display_name),
                         address |-> result.display_name,
                         lat |-> parseFloat(result.lat),
                         lon |-> parseFloat(result.lon),
                         distance |-> result.distance]
    /\ searchMarker' = [position |-> Pos(parseFloat(result.lat), parseFloat(result.lon)),
                        name |-> FirstPart(result.display_name)]
    /\ routeInfo' = null
    /\ UNCHANGED <<biasVars, flyVars, resultVars, searchQuery, isSearching,
                   activeFilter, showSidebar, toast, tutorialStep, tasks>>

\* a row that would make the selected place the bias point
handleResultClickMovesBias(result) ==
    /\ ~isAnimating
    /\ \E k \in 1..Len(searchResults) : searchResults[k] = result
    /\ selectedPlace' = [name |-> FirstPart(result.display_name),
                         address |-> result.display_name,
                         lat |-> parseFloat(result.lat),
                         lon |-> parseFloat(result.lon),
                         distance |-> result.distance]
    /\ searchMarker' = [position |-> Pos(parseFloat(result.lat), parseFloat(result.lon)),
                        name |-> FirstPart(result.display_name)]
    /\ biasLocation' = Pos(parseFloat(result.lat), parseFloat(result.lon))
    /\ biasType' = "dropped"
    /\ UNCHANGED <<flyVars, resultVars, searchQuery, isSearching,
                   activeFilter, showSidebar, toast, routeInfo, tutorialStep, tasks>>

\* a row of the results list (disabled while animating)
handleResultClick(result) ==
    /\ ~isAnimating
    /\ \E k \in 1..Len(searchResults) : searchResults[k] = result
    /\ selectedPlace' = [name |-> FirstPart(result.display_name),
                         address |-> result.display_name,
                         lat |-> parseFloat(result.lat),
                         lon |-> parseFloat(result.lon),
                         distance |-> result.distance]
    /\ searchMarker' = [position |-> Pos(parseFloat(result.lat), parseFloat(result.lon)),
                        name |-> FirstPart(result.display_name)]
    /\ UNCHANGED <<biasVars, flyVars, resultVars, searchQuery, isSearching,
                   activeFilter, showSidebar, toast, routeInfo, tutorialStep, tasks>>

\* Locate, Route and Share are rendered under the selected row of the list,
\* or in the place card when the list is empty
ActionButtonsShown ==
    /\ selectedPlace # null
    /\ \/ searchResults = <<>>
       \/ \E k \in 1..Len(searchResults) :
             /\ selectedPlace.lat = parseFloat(searchResults[k].lat)
             /\ selectedPlace.lon = parseFloat(searchResults[k].lon)

\* the Locate button
handleLocateSelected ==
    /\ ActionButtonsShown
    /\ ~isAnimating
    /\ isAnimating' = TRUE
    /\ showSidebar' = FALSE
    /\ flyTarget' = FlyTarget(Pos(selectedPlace.lat, selectedPlace.lon), 17)
    /\ toast' = [msg |-> "Going to", name |-> selectedPlace.name]
    /\ UNCHANGED <<biasVars, resultVars, searchMarker, searchQuery, isSearching,
                   activeFilter, selectedPlace, routeInfo, tutorialStep, tasks>>

(***************************************************************************)
(* Share.                                                                  *)
(***************************************************************************)
ShareTask(pc) == Task("share", pc, null, nullStr, <<>>, null)

\* the Share button; native says whether navigator.share can take the data
handleShare(native) ==
    /\ ActionButtonsShown
    /\ CanStart
    /\ tasks' = Added(ShareTask(IF native THEN "share" ELSE "clipboard"))
    /\ UNCHANGED <<biasVars, flyVars, resultVars, searchMarker, searchQuery,
                   isSearching, activeFilter, showSidebar, selectedPlace, toast,
                   routeInfo, tutorialStep>>

\* navigator.share settles: fulfilled or rejected, the handler just returns
handleShareSettled(ok) ==
    /\ ShareTask("share") \in Pending
    /\ tasks' = Removed(ShareTask("share"))
    /\ UNCHANGED <<biasVars, flyVars, resultVars, searchMarker, searchQuery,
                   isSearching, activeFilter, showSidebar, selectedPlace, toast,
                   routeInfo, tutorialStep>>

\* navigator.clipboard.writeText settles
handleClipboardSettled(ok) ==
    /\ ShareTask("clipboard") \in Pending
    /\ tasks' = Removed(ShareTask("clipboard"))
    /\ toast' = IF ok THEN Notice("Copied to clipboard!") ELSE Notice("Failed to copy")
    /\ UNCHANGED <<biasVars, flyVars, resultVars, searchMarker, searchQuery,
                   isSearching, activeFilter, showSidebar, selectedPlace, routeInfo,
                   tutorialStep>>

(***************************************************************************)
(* Directions.                                                             *)
(***************************************************************************)
\* the routing service's answers: a response is {code, routes}, a route
\* {geometry: {coordinates: [[lon, lat], ...]}, distance (m), duration (s)}
Midpoint(a, b) == Pos((a.lat + b.lat) \div 2 + 1, (a.lon + b.lon) \div 2)

LonLat(p) == <<p.lon, p.lat>>

Road(start, end, n, distance, duration) ==
    [coordinates |-> IF n = 2 THEN <<LonLat(start), LonLat(end)>>
                     ELSE <<LonLat(start), LonLat(Midpoint(start, end)), LonLat(end)>>,
     distance |-> distance, duration |-> duration]

RouteAnswers(start, end) ==
    { [code |-> "Ok", routes |-> <<Road(start, end, 3, 12340, 1290)>>],
      [code |-> "Ok", routes |-> <<Road(start, end, 2, 250, 20),
                                   Road(start, end, 3, 900, 200)>>],
      [code |-> "Ok", routes |-> <<>>],
      [code |-> "NoRoute", routes |-> <<>>] }

\* a straight line that would carry a duration of zero minutes
StraightRouteWithDuration(t) ==
    [start |-> t.bias,
     end |-> Pos(t.dest.lat, t.dest.lon),
     distance |-> getDistanceKm(t.bias.lat, t.bias.lon, t.dest.lat, t.dest.lon),
     duration |-> 0,
     destination |-> t.dest.name,
     coordinates |-> <<t.bias, Pos(t.dest.lat, t.dest.lon)>>]

\* the straight-line RouteResult of both fallback branches
StraightRoute(t) ==
    [start |-> t.bias,
     end |-> Pos(t.dest.lat, t.dest.lon),
     distance |-> getDistanceKm(t.bias.lat, t.bias.lon, t.dest.lat, t.dest.lon),
     destination |-> t.dest.name,
     coordinates |-> <<t.bias, Pos(t.dest.lat, t.dest.lon)>>]

\* a road route whose [lon, lat] pairs are taken as [lat, lon]
RoadRouteUnswapped(t, route) ==
    [start |-> t.bias,
     end |-> Pos(t.dest.lat, t.dest.lon),
     distance |-> (route.distance * Scale) \div 1000,
     duration |-> MathRound(route.duration, 60),
     destination |-> t.dest.name,
     coordinates |-> [k \in 1..Len(route.coordinates) |->
                         Pos(route.coordinates[k][1], route.coordinates[k][2])]]

\* the RouteResult built from data.routes[0]
RoadRoute(t, route) ==
    [start |-> t.bias,
     end |-> Pos(t.dest.lat, t.dest.lon),
     distance |-> (route.distance * Scale) \div 1000,
     duration |-> MathRound(route.duration, 60),
     destination |-> t.dest.name,
     coordinates |-> [k \in 1..Len(route.coordinates) |->
                         Pos(route.coordinates[k][2], route.coordinates[k][1])]]

\* a Route button that would start from the fallback location when there is
\* no bias point
handleDirectionsFromFallback ==
    /\ ActionButtonsShown
    /\ CanStart
    /\ tasks' = Added(Task("directions", "route",
                           IF biasLocation = null THEN FallbackLocation ELSE biasLocation,
                           nullStr, <<>>, selectedPlace))
    /\ UNCHANGED <<biasVars, flyVars, resultVars, searchMarker, searchQuery,
                   isSearching, activeFilter, showSidebar, selectedPlace, routeInfo,
                   tutorialStep, toast>>

\* the Route button
handleDirections ==
    /\ ActionButtonsShown
    /\ IF biasLocation = null
       THEN /\ toast' = Notice("Need your location first")
            /\ UNCHANGED tasks
       ELSE /\ CanStart
            /\ tasks' = Added(Task("directions", "route", biasLocation, nullStr, <<>>,
                                   selectedPlace))
            /\ UNCHANGED toast
    /\ UNCHANGED <<biasVars, flyVars, resultVars, searchMarker, searchQuery,
                   isSearching, activeFilter, showSidebar, selectedPlace, routeInfo,
                   tutorialStep>>

\* the routing answer arrives
handleDirectionsResponse(t, data) ==
    /\ t \in Pending /\ t.kind = "directions"
    /\ tasks' = Removed(t)
    /\ IF data.code = "Ok" /\ Len(data.routes) > 0
       THEN LET info == RoadRoute(t, data.routes[1])
            IN  /\ routeInfo' = info
                /\ toast' = [msg |-> "Route", distance |-> formatDistance(info.distance),
                             duration |-> info.duration]
       ELSE LET info == StraightRoute(t)
            IN  /\ routeInfo' = info
                /\ toast' = [msg |-> "Straight",
                             distance |-> formatDistance(info.distance)]
    /\ showSidebar' = FALSE
    /\ UNCHANGED <<biasVars, flyVars, resultVars, searchMarker, searchQuery,
                   isSearching, activeFilter, selectedPlace, tutorialStep>>

\* the routing fetch rejects: the catch block
handleDirectionsFailed(t) ==
    /\ t \in Pending /\ t.kind = "directions"
    /\ tasks' = Removed(t)
    /\ routeInfo' = StraightRoute(t)
    /\ toast' = [msg |-> "Line", distance |-> formatDistance(StraightRoute(t).distance)]
    /\ showSidebar' = FALSE
    /\ UNCHANGED <<biasVars, flyVars, resultVars, searchMarker, searchQuery,
                   isSearching, activeFilter, selectedPlace, tutorialStep>>

(***************************************************************************)
(* Clearing, the tutorial and the sidebar.                                 *)
(***************************************************************************)
\* the close button of the route panel
clearRoute ==
    /\ routeInfo # null
    /\ routeInfo' = null
    /\ UNCHANGED <<biasVars, flyVars, resultVars, searchMarker, searchQuery,
                   isSearching, activeFilter, showSidebar, selectedPlace, toast,
                   tutorialStep, tasks>>

\* a Clear All that would forget the bias point too
clearAllResetsBias ==
    /\ filterMarkers # <<>> \/ searchMarker # null \/ selectedPlace # null
    /\ filterMarkers' = <<>>
    /\ searchMarker' = null
    /\ selectedPlace' = null
    /\ activeFilter' = nullStr
    /\ searchResults' = <<>>
    /\ routeInfo' = null
    /\ biasLocation' = null
    /\ biasType' = nullStr
    /\ UNCHANGED <<flyVars, searchQuery, isSearching, showSidebar, toast,
                   tutorialStep, tasks>>

\* Clear All, rendered while there is a marker or a selected place
clearAll ==
    /\ filterMarkers # <<>> \/ searchMarker # null \/ selectedPlace # null
    /\ filterMarkers' = <<>>
    /\ searchMarker' = null
    /\ selectedPlace' = null
    /\ activeFilter' = nullStr
    /\ searchResults' = <<>>
    /\ routeInfo' = null
    /\ UNCHANGED <<biasVars, flyVars, searchQuery, isSearching, showSidebar, toast,
                   tutorialStep, tasks>>

\* the help button
startTutorial ==
    /\ showSidebar' = FALSE
    /\ filterMarkers' = <<>>
    /\ searchMarker' = null
    /\ selectedPlace' = null
    /\ activeFilter' = nullStr
    /\ searchResults' = <<>>
    /\ routeInfo' = null
    /\ biasLocation' = null
    /\ biasType' = nullStr
    /\ searchQuery' = ""
    /\ tutorialStep' = 1
    /\ UNCHANGED <<flyVars, isSearching, toast, tasks>>

\* Next / Done of the tutorial tooltip
nextTutorialStep ==
    /\ tutorialStep # nullStep
    /\ IF tutorialStep < TutorialLength
       THEN /\ tutorialStep' = tutorialStep + 1
            /\ showSidebar' = IF tutorialStep + 1 = 6 THEN TRUE ELSE showSidebar
            /\ UNCHANGED toast
       ELSE /\ tutorialStep' = nullStep
            /\ toast' = Notice("You're all set!")
            /\ UNCHANGED showSidebar
    /\ UNCHANGED <<biasVars, flyVars, resultVars, searchMarker, searchQuery,
                   isSearching, activeFilter, selectedPlace, routeInfo, tasks>>

\* Skip of the tutorial tooltip
skipTutorial ==
    /\ tutorialStep # nullStep
    /\ tutorialStep' = nullStep
    /\ UNCHANGED <<biasVars, flyVars, resultVars, searchMarker, searchQuery,
                   isSearching, activeFilter, showSidebar, selectedPlace, toast,
                   routeInfo, tasks>>

\* the menu button of the header
toggleSidebar ==
    /\ ~isAnimating
    /\ tutorialStep' = IF showSidebar /\ tutorialStep = 6 THEN nullStep ELSE tutorialStep
    /\ showSidebar' = ~showSidebar
    /\ UNCHANGED <<biasVars, flyVars, resultVars, searchMarker, searchQuery,
                   isSearching, activeFilter, selectedPlace, toast, routeInfo, tasks>>

\* the sidebar's close button and its overlay
closeSidebar ==
    /\ showSidebar
    /\ showSidebar' = FALSE
    /\ UNCHANGED <<biasVars, flyVars, resultVars, searchMarker, searchQuery,
                   isSearching, activeFilter, selectedPlace, toast, routeInfo,
                   tutorialStep, tasks>>

(***************************************************************************)
(* The inputs of the model and the specification.  The session is explored *)
(* per usage profile: a profile says which gestures the user makes and     *)
(* what the device and the services answer.  Every handler is part of some *)
(* profile.                                                                *)
(***************************************************************************)
Queries == {"", "cafe"}

In(profiles) == profile \in profiles /\ UNCHANGED <<profile, calc>>

\* the answers the geocoding service may give in the running profile
Listings ==
    IF profile = "search"
    THEN {Listing(1, 0), Listing(1, 2), Listing(4, 2), Listing(4, MaxListing)}
    ELSE IF profile = "filter"
         THEN {Listing(1, 0), Listing(1, 4), Listing(3, MaxListing)}
    ELSE IF profile = "route" THEN {Listing(1, 0), Listing(1, 2)}
    ELSE IF profile = "geo" THEN {Listing(1, 0), Listing(1, 1), ShortListing(1, 1)}
    ELSE {Listing(1, 0), Listing(1, 1)}

Chips == IF profile = "filter" THEN Categories ELSE {"church"}

\* where the user taps, and whether the reverse geocoder answers
Taps == IF profile = "pin" THEN TapPositions ELSE {Pos(1450, 12100)}

Named == IF profile = "pin" THEN BOOLEAN ELSE {TRUE}

Next ==
    \/ /\ In({"pin", "geo", "search"})
       /\ \E position \in Taps : handleMapClick(position)
    \/ /\ In({"pin", "geo", "search"})
       /\ \E named \in Named : handleMapClickNamed(named)
    \/ In({"pin", "lock"}) /\ handleLocateMe
    \/ /\ In({"pin", "lock"})
       /\ \E position \in DevicePositions : handleLocationFound(position)
    \/ In({"pin", "lock"}) /\ handleLocationError
    \/ In(Profiles) /\ handleFlyComplete
    \/ In({"share", "tutorial"}) /\ ToastExpire
    \/ In({"search", "route", "share", "tutorial"}) /\ \E q \in Queries : setSearchQuery(q)
    \/ In({"search", "route", "share", "tutorial"}) /\ handleSearch
    \/ /\ In({"geo", "filter", "lock"})
       /\ \E category \in Chips : handleCategoryFilter(category)
    \/ /\ In({"geo", "tutorial", "lock"})
       /\ \E t \in Pending, loc \in DevicePositions : ensureBiasLocated(t, loc)
    \/ In({"geo", "tutorial", "lock"}) /\ \E t \in Pending : ensureBiasResolved(t)
    \/ In(Profiles \ {"pin"}) /\ \E t \in Pending : ensureBiasFailed(t)
    \/ /\ In({"search", "route", "share", "tutorial"})
       /\ \E t \in Pending, data \in Listings : handleSearchResponse(t, data)
    \/ /\ In({"geo", "filter", "lock"})
       /\ \E t \in Pending, data \in Listings : handleCategoryResponse(t, data)
    \/ In({"geo", "search", "filter"}) /\ \E t \in Pending : handlePipelineFailed(t)
    \/ /\ In({"route", "share", "tutorial"})
       /\ \E k \in 1..Len(searchResults) : handleResultClick(searchResults[k])
    \/ In({"tutorial"}) /\ handleLocateSelected
    \/ In({"share"}) /\ \E native \in BOOLEAN : handleShare(native)
    \/ In({"share"}) /\ \E ok \in BOOLEAN : handleShareSettled(ok)
    \/ In({"share"}) /\ \E ok \in BOOLEAN : handleClipboardSettled(ok)
    \/ In({"route"}) /\ handleDirections
    \/ /\ In({"route"})
       /\ \E t \in {x \in Pending : x.kind = "directions"} :
            \E data \in RouteAnswers(t.bias, Pos(t.dest.lat, t.dest.lon)) :
               handleDirectionsResponse(t, data)
    \/ In({"route"}) /\ \E t \in Pending : handleDirectionsFailed(t)
    \/ In({"route"}) /\ clearRoute
    \/ In({"route", "share", "filter"}) /\ clearAll
    \/ In({"pin", "route", "tutorial"}) /\ startTutorial
    \/ In({"tutorial"}) /\ nextTutorialStep
    \/ In({"tutorial"}) /\ skipTutorial
    \/ In({"tutorial"}) /\ toggleSidebar
    \/ In({"tutorial"}) /\ closeSidebar

Spec == Init /\ [][Next]_vars

\* The requests of the pipelines are answered: geolocation calls back with a
\* position or an error, the 1400 ms timer of ensureBiasLocation fires, and
\* every fetch resolves or rejects.
GeolocationSettles ==
    \E t \in Pending :
       ensureBiasFailed(t) \/ \E loc \in DevicePositions : ensureBiasLocated(t, loc)

BiasTimerFires == \E t \in Pending : ensureBiasResolved(t)

GeocodingSettles ==
    \E t \in Pending :
       \/ handlePipelineFailed(t)
       \/ \E data \in Listings :
             handleSearchResponse(t, data) \/ handleCategoryResponse(t, data)

FairSpec ==
    /\ Spec
    /\ WF_vars(In(Profiles) /\ GeolocationSettles)
    /\ WF_vars(In(Profiles) /\ BiasTimerFires)
    /\ WF_vars(In(Profiles) /\ GeocodingSettles)

\* The locate-me request reports a position or an error, and the 1300 ms
\* timer of FlyToHandler fires.
LocateSettles ==
    handleLocationError \/ \E position \in DevicePositions : handleLocationFound(position)

LockSpec ==
    /\ Spec
    /\ WF_vars(In(Profiles) /\ LocateSettles)
    /\ WF_vars(In(Profiles) /\ GeolocationSettles)
    /\ WF_vars(In(Profiles) /\ handleFlyComplete)

(***************************************************************************)
(* The distance helpers on their own: getDistanceKm and formatDistance are *)
(* pure, so they are applied to arguments drawn from bounded sets.         *)
(***************************************************************************)
\* points of the map: the fallback, two taps near it, and four far places
\* on both sides of the equator and of the Greenwich meridian
Points ==
    {FallbackLocation, Pos(1450, 12100), Pos(1380, 12160), Pos(0, 0),
     Pos(-3387, 15121), Pos(3569, 13969), Pos(5151, -13)}

\* distances in km times Scale, around the two thresholds of formatDistance
\* and around the halves where the rounding turns
Distances ==
    {0, 4, 5, 1234, 9990, 9994, 9995, 9999, 10000, 10001, 10449, 10451, 25000,
     99000, 99449, 99451, 99999, 100000, 100001, 104999, 105000, 1234567}

HelperInit ==
    /\ Mounted
    /\ profile = "pin"
    /\ calc \in {Calc(a, b, km) : a \in Points, b \in Points, km \in Distances}

\* getDistanceKm is called on the two points, in both orders
measure ==
    /\ calc.ab = -1
    /\ calc' = [calc EXCEPT
                   !.ab = getDistanceKm(calc.a.lat, calc.a.lon, calc.b.lat, calc.b.lon),
                   !.ba = getDistanceKm(calc.b.lat, calc.b.lon, calc.a.lat, calc.a.lon)]
    /\ UNCHANGED appVars

\* formatDistance is called on the distance to show
format ==
    /\ calc.label = <<>>
    /\ calc' = [calc EXCEPT !.label = formatDistance(calc.km)]
    /\ UNCHANGED appVars

HelperNext == measure \/ format

HelperSpec == HelperInit /\ [][HelperNext]_vars

(***************************************************************************)
(* Properties.                                                             *)
(***************************************************************************)
DirectionsTasks == {t \in Pending : t.kind = "directions"}

PipelineTasks == {t \in Pending : IsPipeline(t)}

RouteFound(data) == data.code = "Ok" /\ Len(data.routes) > 0

\* C1: a map tap makes the tapped coordinate the bias point, with provenance
\* "dropped", whatever the bias point was before.
C1_MapTapSetsDroppedBias ==
    [][\A position \in TapPositions :
          handleMapClick(position) =>
             biasLocation' = position /\ biasType' = "dropped"]_vars

\* a second pin has been dropped while the reverse geocoding of the first
\* was still pending: the second tap replaced a dropped pin
C1_Witness ==
    /\ biasType = "dropped"
    /\ biasLocation \in TapPositions
    /\ ReverseTask \in Pending /\ tasks[ReverseTask] = 2

\* C2: a delivered locationfound makes the located coordinate the bias point,
\* with provenance "user", whatever the provenance was before.
C2_LocateSetsUserBias ==
    [][\A position \in DevicePositions :
          handleLocationFound(position) =>
             biasLocation' = position /\ biasType' = "user"]_vars

\* the device has been located while the reverse geocoding of a dropped pin
\* was still pending: the located coordinate replaced the pin
C2_Witness ==
    /\ biasType = "user"
    /\ biasLocation \in DevicePositions
    /\ flyTarget # null /\ flyTarget.zoom = 16
    /\ ReverseTask \in Pending

\* C3 as claimed: once set, the bias point is never unset by an operation of
\* the running session.
C3_BiasNeverUnset ==
    [][biasLocation # null => biasLocation' # null]_vars

\* C3 as amended: the only operation that unsets the bias point is the start
\* of the tutorial.
C3_OnlyTutorialUnsetsBias ==
    [][(biasLocation # null /\ biasLocation' = null) => startTutorial]_vars

\* the tutorial was started after a pin drop whose reverse geocoding is still
\* pending: the bias point is unset again
C3_Witness ==
    /\ biasLocation = null
    /\ tutorialStep = 1
    /\ ReverseTask \in Pending

\* the raw response item of a ranked result
Raw(item) ==
    [place_id |-> item.place_id, lat |-> item.lat, lon |-> item.lon,
     display_name |-> item.display_name]

DistanceFrom(bias, item) ==
    getDistanceKm(bias.lat, bias.lon, parseFloat(item.lat), parseFloat(item.lon))

\* results is a ranking of the candidates by distance from bias, cut at max
Ranked(results, candidates, bias, max) ==
    LET ids == {c.place_id : c \in candidates}
        n   == Len(results)
    IN  /\ n <= max
        /\ n = IF Cardinality(ids) < max THEN Cardinality(ids) ELSE max
        /\ \A k \in 1..n :
              /\ Raw(results[k]) \in candidates
              /\ results[k].distance = DistanceFrom(bias, results[k])
        /\ \A j, k \in 1..n : j < k =>
              /\ results[j].distance <= results[k].distance
              /\ results[j].place_id # results[k].place_id
        /\ \A c \in candidates :
              (\A k \in 1..n : results[k].place_id # c.place_id) =>
                 \A k \in 1..n : results[k].distance <= DistanceFrom(bias, c)

Items(data) == {data[k] : k \in 1..Len(data)}

\* the answer data lets the pipeline of t go on to its ranking
SearchEnds(t, data) == Len(data) > 0 \/ t.pc = "tier3"

FilterEnds(t, data) == Len(data) >= 5 \/ t.pc = "tier2"

\* C4: when a search or filter pipeline completes, searchResults holds the
\* invocation's candidates, each with its distance from the invocation's bias
\* point, in non-decreasing distance order, cut to the nearest 6 (search) or
\* 8 (filter).
C4_ResultsRankedAndTruncated ==
    [][\A t \in PipelineTasks : \A data \in Listings :
          /\ (t.kind = "search" /\ SearchEnds(t, data) /\ tasks' = Removed(t)
                /\ handleSearchResponse(t, data))
                => Ranked(searchResults', Items(data), t.bias, 6)
          /\ (t.kind = "filter" /\ FilterEnds(t, data) /\ tasks' = Removed(t)
                /\ handleCategoryResponse(t, data))
                => Ranked(searchResults', Items(t.data) \cup Items(data), t.bias, 8)]_vars

\* a search was cut to its six nearest candidates, ranked from a bias point
\* that is no longer the current one
C4_Witness ==
    /\ Len(searchResults) = 6
    /\ biasLocation # null
    /\ searchResults[1].distance # DistanceFrom(biasLocation, searchResults[1])

\* C5: selecting the active category switches the filter off: no filter is
\* active afterwards, the results and markers are empty and no request is
\* issued; and there is never more than one active category.
C5_ToggleOffClears ==
    [][/\ activeFilter' \in Categories \cup {nullStr}
       /\ \A category \in Categories :
             (activeFilter = category /\ handleCategoryFilter(category)) =>
                /\ activeFilter' = nullStr
                /\ searchResults' = <<>>
                /\ filterMarkers' = <<>>
                /\ tasks' = tasks]_vars

\* the filter was switched off while markers of an earlier answer were shown
\* and its own request was still pending
C5_Witness ==
    /\ profile = "filter"
    /\ activeFilter = nullStr
    /\ searchResults = <<>> /\ filterMarkers = <<>>
    /\ \E t \in Pending : t.kind = "filter" /\ t.pc = "tier2"

\* C6 as claimed: after a category was selected and deselected, the results
\* and markers are empty, also when every answer to the requests of the
\* first selection has arrived.  (In the filter profile results come from
\* category answers only, and the filter is inactive only at the start, after
\* a deselection or after Clear All.)
C6_ToggleTwiceStaysEmpty ==
    (profile = "filter" /\ activeFilter = nullStr /\ PipelineTasks = {}) =>
        (searchResults = <<>> /\ filterMarkers = <<>>)

\* what the invocation of t has gathered when its pending fetch fails
GatheredIds(t) == PlaceIds(t.data)

\* C7 as claimed: when a fetch of a pipeline fails, the pipeline stops and
\* searchResults holds exactly what this invocation had gathered until then.
C7_FailureKeepsGathered ==
    [][\A t \in PipelineTasks :
          handlePipelineFailed(t) =>
             /\ PlaceIds(searchResults') = GatheredIds(t)
             /\ isSearching' = FALSE]_vars

\* C8: directions asked without a bias point are refused: no request is
\* issued, the notice is shown and routeInfo is left alone.
C8_DirectionsNeedBias ==
    [][(biasLocation = null /\ handleDirections) =>
          /\ tasks' = tasks
          /\ toast' = Notice("Need your location first")
          /\ routeInfo' = routeInfo]_vars

\* directions for a selected place have been refused
C8_Witness ==
    /\ toast = Notice("Need your location first")
    /\ biasLocation = null
    /\ selectedPlace # null

\* the straight-line RouteResult from the bias point of the invocation of t
IsStraightLine(info, t) ==
    /\ info # null
    /\ info.coordinates = <<t.bias, Pos(t.dest.lat, t.dest.lon)>>
    /\ Len(info.coordinates) = 2
    /\ info.distance = getDistanceKm(t.bias.lat, t.bias.lon, t.dest.lat, t.dest.lon)
    /\ "duration" \notin DOMAIN info

\* C9: when the routing request fails or answers without a route, routeInfo
\* becomes the straight line between the two endpoints, with the haversine
\* distance and no duration.
C9_RoutingFallbackIsStraightLine ==
    [][\A t \in DirectionsTasks :
          /\ handleDirectionsFailed(t) => IsStraightLine(routeInfo', t)
          /\ \A data \in RouteAnswers(t.bias, Pos(t.dest.lat, t.dest.lon)) :
                (~RouteFound(data) /\ handleDirectionsResponse(t, data)) =>
                   IsStraightLine(routeInfo', t)]_vars

\* a straight line is shown that starts at the bias point of its invocation,
\* which the session has reset since
C9_Witness ==
    /\ routeInfo # null
    /\ "duration" \notin DOMAIN routeInfo
    /\ Len(routeInfo.coordinates) = 2
    /\ routeInfo.start # biasLocation

\* C10 as claimed: a RouteResult built from a found route has more than two
\* path coordinates (and a duration).
C10_RoadRouteHasMoreThanTwoPoints ==
    (routeInfo # null /\ "duration" \in DOMAIN routeInfo) =>
        Len(routeInfo.coordinates) > 2

\* C10 as amended: a RouteResult built from a found route has the path of the
\* first route, each [lon, lat] pair turned into [lat, lon] (so at least two
\* coordinates), the first route's distance in km and its duration in whole
\* minutes.
C10_RoadRouteFromFirstRoute ==
    [][\A t \in DirectionsTasks :
          \A data \in RouteAnswers(t.bias, Pos(t.dest.lat, t.dest.lon)) :
             (RouteFound(data) /\ handleDirectionsResponse(t, data)) =>
                LET first == data.routes[1]
                    path  == routeInfo'.coordinates
                IN  /\ Len(path) = Len(first.coordinates)
                    /\ Len(path) >= 2
                    /\ \A k \in 1..Len(path) :
                          /\ path[k].lat = first.coordinates[k][2]
                          /\ path[k].lon = first.coordinates[k][1]
                    /\ "duration" \in DOMAIN routeInfo'
                    /\ routeInfo'.duration = MathRound(first.duration, 60)
                    /\ routeInfo'.distance * 1000 = first.distance * Scale]_vars

\* a found route of exactly two coordinates is shown
C10_Witness ==
    /\ routeInfo # null
    /\ "duration" \in DOMAIN routeInfo
    /\ Len(routeInfo.coordinates) = 2

\* C11: when the tightest radius of a search answered nothing and the second
\* radius answers with places, searchResults becomes these places ranked by
\* distance and cut to 6, and the country-wide request is not issued.
C11_SecondRadiusAnswerEndsSearch ==
    [][\A t \in PipelineTasks : \A data \in Listings :
          (t.kind = "search" /\ t.pc = "tier2" /\ Len(data) > 0
              /\ handleSearchResponse(t, data)) =>
             /\ Ranked(searchResults', Items(data), t.bias, 6)
             /\ Len(searchResults') <= 6
             /\ \A u \in DOMAIN tasks' : ~(u.kind = "search" /\ u.pc = "tier3")
             /\ isSearching' = FALSE]_vars

\* the tightest radius of a search has answered nothing: the search awaits
\* the answer of its second radius
C11_Witness ==
    /\ profile = "search"
    /\ isSearching
    /\ \E t \in Pending : t.kind = "search" /\ t.pc = "tier2"

\* the positions of the entries of place id in data
Occurrences(data, id) == {k \in 1..Len(data) : data[k].place_id = id}

\* C12: when the category filter merges its two radius tiers, a place listed
\* by both tiers is once in the merged list, with the entry of the tighter
\* tier; so it is at most once in searchResults, with that entry.
C12_MergeKeepsFirstTierEntry ==
    [][\A t \in PipelineTasks : \A data \in Listings :
          (t.kind = "filter" /\ t.pc = "tier2" /\ handleCategoryResponse(t, data)) =>
             LET merged == MergeTiers(t.data, data, PlaceIds(t.data))
             IN  \A id \in PlaceIds(t.data) \cap PlaceIds(data) :
                    /\ Cardinality(Occurrences(merged, id)) = 1
                    /\ \A k \in Occurrences(merged, id) : merged[k] \in Items(t.data)
                    /\ Cardinality(Occurrences(searchResults', id)) <= 1
                    /\ (Len(merged) <= 8 =>
                          Cardinality(Occurrences(searchResults', id)) = 1)
                    /\ \A k \in Occurrences(searchResults', id) :
                          Raw(searchResults'[k]) \in Items(t.data)]_vars

\* the results hold a place only the tighter tier has listed and a place only
\* the wider tier has listed, of two answers that share places
C12_Witness ==
    /\ profile = "filter"
    /\ PlaceIds(Listing(1, 4)) \cap PlaceIds(Listing(3, MaxListing)) # {}
    /\ \E j, k \in 1..Len(searchResults) :
          /\ searchResults[j].place_id \in
                PlaceIds(Listing(1, 4)) \ PlaceIds(Listing(3, MaxListing))
          /\ searchResults[k].place_id \in
                PlaceIds(Listing(3, MaxListing)) \ PlaceIds(Listing(1, 4))

\* a geolocation request is in flight
GeolocationPending ==
    LocateTask \in Pending \/ \E t \in PipelineTasks : t.pc = "geo"

\* C13: a pin dropped while a geolocation request is in flight becomes the
\* bias point at once, and the geolocation result that arrives later is still
\* applied: the device coordinate replaces the pin, with provenance "user".
C13_LastWriteWins ==
    [][/\ \A position \in TapPositions :
             (GeolocationPending /\ handleMapClick(position)) =>
                biasLocation' = position /\ biasType' = "dropped"
       /\ \A t \in PipelineTasks : \A loc \in DevicePositions :
             (biasType = "dropped" /\ ensureBiasLocated(t, loc)) =>
                biasLocation' = loc /\ biasType' = "user"
       /\ \A position \in DevicePositions :
             (biasType = "dropped" /\ handleLocationFound(position)) =>
                biasLocation' = position /\ biasType' = "user"]_vars

\* the device coordinate has replaced a pin that was dropped while the
\* geolocation of a pipeline was in flight (its reverse geocoding still is)
C13_Witness ==
    /\ profile = "geo"
    /\ biasType = "user"
    /\ biasLocation \in DevicePositions
    /\ flyTarget # null /\ flyTarget.zoom = 15
    /\ ReverseTask \in Pending

\* C14 as claimed: the late answer to a pipeline that a later user action
\* has superseded is never applied.  (A filter task whose category is not the
\* active one any more, while another category is active, was superseded by
\* the category filter started after it.)
C14_SupersededAnswerIgnored ==
    [][\A t \in PipelineTasks : \A data \in Listings :
          (t.kind = "filter" /\ activeFilter \in Categories \ {t.cat}
              /\ handleCategoryResponse(t, data)) =>
             UNCHANGED <<searchResults, filterMarkers>>]_vars

\* a directions request is answered, with or without a route, or fails
DirectionsAnswered ==
    \E t \in DirectionsTasks :
       \/ handleDirectionsFailed(t)
       \/ \E data \in RouteAnswers(t.bias, Pos(t.dest.lat, t.dest.lon)) :
             handleDirectionsResponse(t, data)

C16_ShareFailureShowsNotice ==
    [][/\ handleClipboardSettled(FALSE) => toast' = Notice("Failed to copy")
       /\ handleShareSettled(FALSE) => (toast' # null /\ toast' # toast)]_vars

\* C17 as claimed: after a geolocation request has failed, of locate-me or of
\* a pipeline, the bias point is set.
C17_GeolocationFailureSetsBias ==
    [][(handleLocationError \/ \E t \in PipelineTasks : ensureBiasFailed(t)) =>
          biasLocation' # null]_vars

\* C17 as amended: a failed geolocation of a pipeline makes the fixed default
\* coordinate the bias point, with provenance "user"; a failed locate-me
\* shows its notice, ends the animation lock and leaves the bias point as it
\* is, unset included.
C17_GeolocationFailureHandling ==
    [][/\ \A t \in PipelineTasks :
             ensureBiasFailed(t) =>
                biasLocation' = FallbackLocation /\ biasType' = "user"
       /\ handleLocationError =>
             /\ UNCHANGED <<biasLocation, biasType>>
             /\ toast' = Notice("Could not find location")
             /\ isAnimating' = FALSE]_vars

\* locate-me has failed in a session without a bias point: there still is none
C17_Witness ==
    /\ toast = Notice("Could not find location")
    /\ biasLocation = null
    /\ ~isAnimating
    /\ LocateTask \notin Pending

\* the order of the awaits of a pipeline
AwaitRank(pc) ==
    CASE pc = "geo" -> 0 [] pc = "settle" -> 1 [] pc = "tier1" -> 2
      [] pc = "tier2" -> 3 [] pc = "tier3" -> 4

\* the user starts a search or a category filter
PipelineStarts ==
    \/ handleSearch
    \/ \E category \in Categories :
          activeFilter # category /\ handleCategoryFilter(category)

\* C18: an invocation of search or category filter goes through its awaits in
\* order, one request at a time and never a tier twice (at most tier1, tier2,
\* tier3 for a search and tier1, tier2 for a filter); isSearching is false
\* whenever no invocation is pending; and, when every request is answered,
\* the invocations all end, with isSearching false, unless the user keeps
\* starting new ones.
C18_PipelinesTerminate ==
    /\ [][\A t \in PipelineTasks : \A u \in DOMAIN tasks' :
             (IsPipeline(u) /\ u # t /\ tasks' = Moved(t, u)) =>
                /\ u.kind = t.kind
                /\ AwaitRank(u.pc) > AwaitRank(t.pc)
                /\ (u.kind = "filter" => u.pc # "tier3")]_vars
    /\ [](PipelineTasks = {} => ~isSearching)
    /\ ([]<><<PipelineStarts>>_vars \/ <>[](PipelineTasks = {} /\ ~isSearching))

\* a search has gone through its first two radii without a place and awaits
\* the answer of its third and last request
C18_Witness ==
    /\ profile = "search"
    /\ isSearching
    /\ \E t \in Pending : t.kind = "search" /\ t.pc = "tier3"

\* C19: formatDistance picks its unit by threshold: under 1 km it gives the
\* nearest whole number of metres, from 1 km and under 10 km the kilometres to
\* the nearest tenth, from 10 km on the nearest whole number of kilometres;
\* so 999 m reads "999 m", 1000 m reads "1.0 km" and 10.0 km reads "10 km".
C19_FormatDistanceThresholds ==
    calc.label # <<>> =>
       LET km   == calc.km
           n    == calc.label[1]
           unit == calc.label[2]
       IN  /\ (km < Scale) =>
                 (unit = "m" /\ 2 * Abs(n * Scale - km * 1000) <= Scale)
           /\ (km >= Scale /\ km < 10 * Scale) =>
                 (unit = "km1" /\ 2 * Abs(n * Scale - km * 10) <= Scale)
           /\ (km >= 10 * Scale) =>
                 (unit = "km" /\ 2 * Abs(n * Scale - km) <= Scale)
           /\ (km = 9990) => (calc.label = <<999, "m">>)
           /\ (km = Scale) => (calc.label = <<10, "km1">>)
           /\ (km = 10 * Scale) => (calc.label = <<10, "km">>)

\* the distance of exactly 10 km has been formatted, in whole kilometres
C19_Witness == calc.km = 10 * Scale /\ calc.label = <<10, "km">>

\* C20: getDistanceKm is symmetric: the distance from a to b is the distance
\* from b to a, for all pairs of points.
C20_DistanceSymmetric == calc.ab # -1 => calc.ab = calc.ba

\* the fallback location and a far point of the other hemisphere have been
\* measured in both orders, some 6 300 km apart
C20_Witness ==
    /\ calc.a = FallbackLocation /\ calc.b = Pos(-3387, 15121)
    /\ calc.ab > 6000 * Scale /\ calc.ab < 6500 * Scale
    /\ calc.ba # -1

\* a map tap or a locate-me result
TapOrLocateResult ==
    \/ \E position \in TapPositions : handleMapClick(position)
    \/ \E position \in DevicePositions : handleLocationFound(position)

\* a callback of the geolocation that a pipeline asked for
PipelineGeolocationResult ==
    \E t \in PipelineTasks :
       ensureBiasFailed(t) \/ \E loc \in DevicePositions : ensureBiasLocated(t, loc)

\* C21 as claimed: biasLocation and biasType are written only by a map tap and
\* by a locate-me geolocation result; every other operation, the search and
\* category-filter pipelines included, leaves them as they are.
C21_OnlyTapAndLocateWriteBias ==
    [][biasVars' # biasVars => TapOrLocateResult]_vars

\* C21 as amended: biasLocation and biasType are written only by a map tap, by
\* a locate-me geolocation result, by the geolocation callbacks of a search or
\* category-filter pipeline that started without a bias point, and by the start
\* of the tutorial; the routing pipeline, result selection, Locate, Share and
\* Clear All leave them as they are.
C21_BiasWriters ==
    [][/\ biasVars' # biasVars =>
             (TapOrLocateResult \/ PipelineGeolocationResult \/ startTutorial)
       /\ (\/ handleDirections
           \/ \E t \in Pending : handleDirectionsFailed(t)
           \/ \E k \in 1..Len(searchResults) : handleResultClick(searchResults[k])
           \/ handleLocateSelected
           \/ \E native \in BOOLEAN : handleShare(native)
           \/ clearAll) => UNCHANGED biasVars]_vars

\* a search that started without a bias point has written it: its geolocation
\* failed, and it awaits its first geocoding answer around the fallback
C21_Witness ==
    /\ profile = "search"
    /\ biasLocation = FallbackLocation /\ biasType = "user"
    /\ \E t \in Pending : t.kind = "search" /\ t.pc = "tier1" /\ t.bias = FallbackLocation

\* the awaits at which a geocoding request is in flight
GeocodingAwaits == {"tier1", "tier2", "tier3"}

\* the step starts a pipeline of the given kind, whose first await is u
Starts(kind, u) ==
    /\ u.kind = kind
    /\ tasks' = Added(u)
    /\ IF kind = "search" THEN handleSearch
       ELSE activeFilter # u.cat /\ handleCategoryFilter(u.cat)

\* C22: a search or category filter that starts without a bias point asks the
\* device for its position before any geocoding request; on success the bias
\* point becomes the device coordinate, on failure the fixed default, with
\* provenance "user" in both cases, and that coordinate is the centre of every
\* geocoding request and of every distance of this invocation.  A pipeline
\* that starts with a bias point asks for no geolocation and uses that point.
C22_EffectiveBias ==
    [][/\ \A kind \in {"search", "filter"} : \A u \in DOMAIN tasks' :
             Starts(kind, u) =>
                /\ UNCHANGED biasVars
                /\ IF biasLocation = null THEN u.pc = "geo"
                   ELSE u.pc = "tier1" /\ u.bias = biasLocation
       /\ \A t \in PipelineTasks : \A u \in DOMAIN tasks' :
             (u # t /\ IsPipeline(u) /\ tasks' = Moved(t, u)) =>
                IF t.pc = "geo"
                THEN \/ /\ ensureBiasFailed(t)
                        /\ u.pc = "tier1" /\ u.bias = FallbackLocation
                        /\ biasLocation' = FallbackLocation /\ biasType' = "user"
                     \/ /\ u.pc = "settle" /\ u.bias \in DevicePositions
                        /\ ensureBiasLocated(t, u.bias)
                        /\ biasLocation' = u.bias /\ biasType' = "user"
                ELSE u.bias = t.bias /\ u.pc \in GeocodingAwaits
       /\ \A t \in PipelineTasks :
             (t.pc \in GeocodingAwaits /\ tasks' = Removed(t)
                 /\ searchResults' # searchResults) =>
                \A k \in 1..Len(searchResults') :
                   searchResults'[k].distance = DistanceFrom(t.bias, searchResults'[k])]_vars

\* a category filter that started without a bias point has ended: the device
\* coordinate is the bias point and the places are measured from it
C22_Witness ==
    /\ profile = "geo"
    /\ biasType = "user" /\ biasLocation \in DevicePositions
    /\ searchResults # <<>>
    /\ searchResults[1].distance = DistanceFrom(biasLocation, searchResults[1])
    /\ PipelineTasks = {}

\* the number of pending requests u
Count(bag, u) == IF u \in DOMAIN bag THEN bag[u] ELSE 0

\* C23: a free-text search tries its tiers in a fixed order and stops at the
\* first answer that is not empty: the request of the second radius is issued
\* only when the answer to the first has arrived with no place, the
\* country-wide request only when the answer to the second has arrived with no
\* place too, and an answer with places is followed by no further request.
C23_SearchTiersInOrder ==
    [][/\ \A u \in DOMAIN tasks' :
             (u.kind = "search" /\ u.pc \in {"tier2", "tier3"}
                 /\ Count(tasks', u) > Count(tasks, u)) =>
                \E t \in PipelineTasks :
                   /\ t.kind = "search"
                   /\ t.pc = (IF u.pc = "tier2" THEN "tier1" ELSE "tier2")
                   /\ u = [t EXCEPT !.pc = u.pc]
                   /\ tasks' = Moved(t, u)
                   /\ handleSearchResponse(t, <<>>)
       /\ \A t \in PipelineTasks : \A data \in Listings :
             (t.kind = "search" /\ Len(data) > 0 /\ tasks' # Removed(t)) =>
                ~handleSearchResponse(t, data)]_vars

\* a search around a dropped pin has had no place from either radius and
\* awaits the country-wide answer
C23_Witness ==
    /\ biasType = "dropped"
    /\ \E t \in Pending :
          t.kind = "search" /\ t.pc = "tier3" /\ t.bias = biasLocation

\* C24: a category filter issues the request of the wider radius if and only
\* if the answer to the first, tightest request lists fewer than 5 places;
\* with 5 places or more that request is the only one of the invocation and
\* the result list is built from its answer alone.
C24_WiderRequestIffFewerThanFive ==
    [][/\ \A t \in PipelineTasks : \A data \in Listings :
             (/\ t.kind = "filter" /\ t.pc = "tier1"
              /\ tasks' # tasks
              /\ handleCategoryResponse(t, data)) =>
                IF Len(data) < 5
                THEN /\ tasks' = Moved(t, [t EXCEPT !.pc = "tier2", !.data = data])
                     /\ UNCHANGED resultVars
                ELSE /\ tasks' = Removed(t)
                     /\ Ranked(searchResults', Items(data), t.bias, 8)
       /\ \A u \in DOMAIN tasks' :
             (u.kind = "filter" /\ u.pc = "tier2"
                 /\ Count(tasks', u) > Count(tasks, u)) =>
                \E t \in PipelineTasks :
                   /\ t.kind = "filter" /\ t.pc = "tier1"
                   /\ tasks' = Moved(t, u)
                   /\ Len(u.data) < 5
                   /\ handleCategoryResponse(t, u.data)]_vars

\* a category filter has ended on its first answer, which listed 5 places or
\* more: the list shows places of that answer only
C24_Witness ==
    /\ profile = "filter"
    /\ activeFilter # nullStr
    /\ PipelineTasks = {}
    /\ Len(searchResults) >= 5
    /\ PlaceIds(searchResults) \subseteq PlaceIds(Listing(3, MaxListing))

\* C25: the bias point and its provenance tag are consistent: at startup both
\* are null, and in every state biasLocation is null exactly when biasType is,
\* a set biasType being "user" or "dropped".
C25_BiasAndTagConsistent ==
    /\ biasLocation = null /\ biasType = nullStr
    /\ [](/\ biasLocation = null <=> biasType = nullStr
          /\ biasType \in {nullStr, "user", "dropped"})

\* a category filter has put the fallback coordinate, tagged "user", as the
\* bias point and has listed places around it
C25_Witness ==
    /\ profile = "filter"
    /\ biasLocation = FallbackLocation /\ biasType = "user"
    /\ searchResults # <<>>

\* C26 as claimed: the fallback coordinate never replaces a bias point: when
\* the geolocation that a pipeline asked for fails after the user has dropped
\* a pin, the pin is still the bias point, tagged "dropped", afterwards.
C26_FallbackKeepsDroppedPin ==
    [][\A t \in PipelineTasks :
          (biasType = "dropped" /\ ensureBiasFailed(t)) => UNCHANGED biasVars]_vars

\* C27 as claimed: a selected place, and a list of results, imply a bias
\* point: whenever selectedPlace is set or searchResults is not empty,
\* biasLocation is set, so that Route on a selected result is never refused
\* for want of a bias point.
C27_SelectionImpliesBias ==
    (selectedPlace # null \/ searchResults # <<>>) => biasLocation # null

\* C28 as claimed: the animation lock covers every pending fly: whenever
\* flyTarget is set (a fly has started and its completion timer has not
\* fired), isAnimating is true.
C28_LockCoversPendingFly == flyTarget # null => isAnimating

\* the user actions that the animation lock gates
GatedGesture ==
    \/ \E position \in TapPositions : handleMapClick(position)
    \/ handleLocateMe
    \/ handleSearch
    \/ \E category \in Categories : handleCategoryFilter(category)
    \/ \E k \in 1..Len(searchResults) : handleResultClick(searchResults[k])
    \/ handleLocateSelected

\* C29: while isAnimating is true a map tap, the locate-me button, a search
\* submission, a category chip, a result click and Locate-selected do nothing:
\* no step that changes the session state or issues a request is one of theirs.
C29_GatedWhileAnimating ==
    [][isAnimating => ~GatedGesture]_vars

\* a fly to the selected place is under way, with a query typed and results
\* listed: every gated action has something to act on
C29_Witness ==
    /\ isAnimating
    /\ flyTarget # null /\ flyTarget.zoom = 17
    /\ selectedPlace # null
    /\ searchResults # <<>>
    /\ searchQuery # ""

\* C30: the animation lock is always released: whenever isAnimating is true
\* it becomes false again, provided every geolocation request reports a
\* position or an error and the completion timer of a fly fires.
C30_LockReleased == isAnimating ~> ~isAnimating

\* the lock taken by the locate button has been released: the position was
\* found, the fly to it has completed and nothing is pending
C30_Witness ==
    /\ profile = "pin"
    /\ ~isAnimating /\ flyTarget = null
    /\ biasType = "user" /\ biasLocation \in DevicePositions
    /\ tasks = NoTasks

=============================================================================
